---- MODULE Spec2Model ----
(***************************************************************************)
(* Model of mbsaiagent.py: the MiningBusinessAnalyst gateways              *)
(* (analyze_query, get_market_data) and the Streamlit script main(), which *)
(* the framework re-runs top to bottom once per user interaction and per   *)
(* browser session.  A render pass is split at the points where it blocks  *)
(* on a remote call, so that passes of two sessions can interleave.        *)
(***************************************************************************)
EXTENDS Integers, Sequences, FiniteSets, TLC

VARIABLES
    openai_api_key, \* the module attribute openai.api_key (one per server process)
    pc,             \* per session: position of the running render pass
    widgets,        \* per session: widget values the pass reads
    calls,          \* per session: remote calls made by the current pass
    page,           \* per session: elements rendered by the current pass
    fault,          \* per session: the pass ended in an unhandled exception
    submitted       \* per session: queries handed to analyze_query so far

vars == <<openai_api_key, pc, widgets, calls, page, fault, submitted>>

\* Bounds of the model.
MaxSubmit == 1
MaxRisk == 2

Sessions == {"s1", "s2"}

-----------------------------------------------------------------------------
(* Python values of mixed type: str, int, None.                            *)

PyStr(x) == [kind |-> "str", s |-> x, n |-> 0]
PyInt(x) == [kind |-> "int", s |-> "", n |-> x]
PyNone == [kind |-> "none", s |-> "", n |-> 0]

Digit(d) == SubSeq("0123456789", d + 1, d + 1)

RECURSIVE IntToStr(_)
IntToStr(n) == IF n < 10 THEN Digit(n) ELSE IntToStr(n \div 10) \o Digit(n % 10)

Pad3(n) == Digit(n \div 100) \o Digit((n \div 10) % 10) \o Digit(n % 10)

\* format(n, ",") for a non-negative int
RECURSIVE IntComma(_)
IntComma(n) ==
    IF n < 1000 THEN IntToStr(n)
    ELSE IntComma(n \div 1000) \o "," \o Pad3(n % 1000)

\* str(v), which is also f"{v}"
PyToStr(v) ==
    CASE v.kind = "str" -> v.s
      [] v.kind = "int" -> IntToStr(v.n)
      [] OTHER -> "None"

\* f"{v:,}": only numbers accept the ',' format specifier; str raises
\* ValueError and None raises TypeError.
CommaRaises(v) == v.kind # "int"
CommaFormat(v) == IntComma(v.n)

StartsWith(str, prefix) ==
    /\ Len(str) >= Len(prefix)
    /\ SubSeq(str, 1, Len(prefix)) = prefix

Contains(str, sub) ==
    \E i \in 1..(Len(str) - Len(sub) + 1) : SubSeq(str, i, i + Len(sub) - 1) = sub

JoinDropLast(sep, items) ==
    IF Len(items) <= 1 THEN ""
    ELSE LET F[i \in 1..(Len(items) - 1)] ==
                 IF i = 1 THEN items[1] ELSE F[i - 1] \o sep \o items[i]
         IN F[Len(items) - 1]

\* sep.join(items)
Join(sep, items) ==
    IF items = <<>> THEN ""
    ELSE LET F[i \in 1..Len(items)] ==
                 IF i = 1 THEN items[1] ELSE F[i - 1] \o sep \o items[i]
         IN F[Len(items)]

-----------------------------------------------------------------------------
(* Completion Gateway.  A response of the remote chat-completion call is   *)
(* either a raised exception with message msg or an object whose choices   *)
(* list holds the message contents.                                        *)

ExcMsgs == {"", "timeout"}

ChatResponses ==
    {[raises |-> TRUE, msg |-> m, choices |-> <<>>] : m \in ExcMsgs}
    \cup {[raises |-> FALSE, msg |-> "", choices |-> c] :
            c \in {<<>>, <<PyStr("Copper demand is rising.")>>, <<PyStr("")>>, <<PyNone>>}}

analyze_query(resp) ==
    IF resp.raises THEN PyStr("Error: " \o resp.msg)
    ELSE IF Len(resp.choices) = 0 THEN PyStr("Error: " \o "list index out of range")
    ELSE resp.choices[1]

-----------------------------------------------------------------------------
(* Market Data Gateway.                                                    *)

SnapshotKeys ==
    {"price", "volume", "market_cap", "pe_ratio", "dividend_yield", "52w_high", "52w_low"}

SourceKey(k) ==
    CASE k = "price" -> "currentPrice"
      [] k = "volume" -> "volume"
      [] k = "market_cap" -> "marketCap"
      [] k = "pe_ratio" -> "forwardPE"
      [] k = "dividend_yield" -> "dividendYield"
      [] k = "52w_high" -> "fiftyTwoWeekHigh"
      [] k = "52w_low" -> "fiftyTwoWeekLow"

\* Keys of the provider's info that the snapshot reads.
InfoKeys == {SourceKey(k) : k \in SnapshotKeys}

Quote(k) ==
    CASE k = "currentPrice" -> PyInt(45)
      [] k = "volume" -> PyInt(2500000)
      [] k = "marketCap" -> PyInt(150000000)
      [] k = "forwardPE" -> PyInt(12)
      [] k = "dividendYield" -> PyInt(5)
      [] k = "fiftyTwoWeekHigh" -> PyInt(50)
      [] k = "fiftyTwoWeekLow" -> PyInt(38)
      [] OTHER -> PyStr("BHP Group Limited")

InfoOf(S) == [k \in S |-> Quote(k)]

\* The lookup raises, or returns no data at all, or returns the company name
\* (which the snapshot ignores) and any subset of the seven fields.
TickerResponses ==
    {[raises |-> TRUE, msg |-> m, info |-> InfoOf({})] : m \in ExcMsgs}
    \cup {[raises |-> FALSE, msg |-> "", info |-> InfoOf({})]}
    \cup {[raises |-> FALSE, msg |-> "", info |-> InfoOf(S \cup {"longName"})] :
            S \in SUBSET InfoKeys}

NA == PyStr("N/A")

\* info.get(key, default)
InfoGet(info, key, default) ==
    IF key \in DOMAIN info THEN info[key] ELSE default

get_market_data_no_default(resp) ==
    IF resp.raises THEN [k \in {"error"} |-> PyStr(resp.msg)]
    ELSE [k \in SnapshotKeys |-> InfoGet(resp.info, SourceKey(k), PyNone)]

get_market_data(resp) ==
    IF resp.raises THEN [k \in {"error"} |-> PyStr(resp.msg)]
    ELSE [k \in SnapshotKeys |-> InfoGet(resp.info, SourceKey(k), NA)]

-----------------------------------------------------------------------------
(* The templated form of the Business Analysis tab.  A form value holds    *)
(* the analysis type and the value of the one widget that type shows:      *)
(* choice for a selectbox or text input, risk_focus for the multiselect.   *)

AnalysisTypes ==
    {"Market Research", "Investment Strategy", "Operational Analysis",
     "Risk Assessment", "Competitor Analysis"}

Commodities == {"Gold", "Silver", "Copper", "Iron Ore", "Lithium", "Coal", "Nickel"}
Regions == {"North America", "South America", "Australia", "Africa", "Asia"}
OperationTypes == {"Open Pit", "Underground", "Surface Mining", "In-Situ Recovery"}
RiskAreas == {"Environmental", "Regulatory", "Market", "Operational", "Political"}
Companies == {"", "BHP", "Rio Tinto"}

\* Values of the multiselect: selected areas, no area twice.
RiskSelections ==
    {sel \in UNION {[1..n -> RiskAreas] : n \in 0..MaxRisk} :
        \A i, j \in DOMAIN sel : i # j => sel[i] # sel[j]}

FormOf(t, c, r) == [analysis_type |-> t, choice |-> c, risk_focus |-> r]

Forms ==
    {FormOf("Market Research", c, <<>>) : c \in Commodities}
    \cup {FormOf("Investment Strategy", c, <<>>) : c \in Regions}
    \cup {FormOf("Operational Analysis", c, <<>>) : c \in OperationTypes}
    \cup {FormOf("Risk Assessment", "", r) : r \in RiskSelections}
    \cup {FormOf("Competitor Analysis", c, <<>>) : c \in Companies}

BuildQuery(form) ==
    CASE form.analysis_type = "Market Research" ->
           "Provide a comprehensive market analysis for " \o form.choice
           \o " mining industry, including current trends, prices, demand-supply dynamics, and future outlook."
      [] form.analysis_type = "Investment Strategy" ->
           "Develop an investment strategy for mining operations in " \o form.choice
           \o ", including key opportunities, risks, and recommendations."
      [] form.analysis_type = "Operational Analysis" ->
           "Analyze operational considerations, best practices, and optimization strategies for "
           \o form.choice \o " mining operations."
      [] form.analysis_type = "Risk Assessment" ->
           "Provide a detailed risk assessment for mining operations focusing on "
           \o Join(", ", form.risk_focus) \o " risks."
      [] OTHER ->
           "Analyze the competitive position, strengths, weaknesses, and strategy of "
           \o form.choice \o " in the mining industry."

-----------------------------------------------------------------------------
(* Widget values of one render pass.  pressed is the button whose click    *)
(* triggered the pass; the framework reports at most one per pass.  The    *)
(* symbol field and the free-text area are read where their tab runs.      *)

Buttons == {"none", "Generate Analysis", "Generate Custom Analysis"}
Symbols == {"", "BHP"}
Texts == {"", "Impact of green energy on copper demand"}

KeysOf(s) == IF s = "s1" THEN {"", "sk-A"} ELSE {"", "sk-B"}

WidgetsOf(s, forms) ==
    [api_key : KeysOf(s), pressed : Buttons, form : forms]

DefaultWidgets ==
    [api_key |-> "", pressed |-> "none",
     form |-> FormOf("Market Research", "Gold", <<>>)]

Element(w, l, b) == [widget |-> w, label |-> l, body |-> b]

ChatCall(key, query, resp) ==
    [api |-> "chat", key |-> key, arg |-> query, resp |-> resp, ret |-> analyze_query(resp)]

TickerCall(symbol, resp) ==
    [api |-> "ticker", key |-> "", arg |-> symbol, resp |-> resp, ret |-> get_market_data(resp)]

\* The metric tiles of the Market Data tab in rendering order.
TileCount == 7

TileRaises(i, data) ==
    CASE i = 2 -> CommaRaises(data["volume"])
      [] i = 3 -> CommaRaises(data["market_cap"])
      [] OTHER -> FALSE

Tile(i, data) ==
    CASE i = 1 -> Element("metric", "Current Price", PyStr("$" \o PyToStr(data["price"])))
      [] i = 2 -> Element("metric", "Volume", PyStr(CommaFormat(data["volume"])))
      [] i = 3 -> Element("metric", "Market Cap", PyStr("$" \o CommaFormat(data["market_cap"])))
      [] i = 4 -> Element("metric", "P/E Ratio", data["pe_ratio"])
      [] i = 5 -> Element("metric", "52 Week High", PyStr("$" \o PyToStr(data["52w_high"])))
      [] i = 6 -> Element("metric", "52 Week Low", PyStr("$" \o PyToStr(data["52w_low"])))
      [] OTHER -> Element("metric", "Dividend Yield",
                          IF data["dividend_yield"] # NA
                          THEN PyStr(PyToStr(data["dividend_yield"]) \o "%")
                          ELSE NA)

\* Number of tiles rendered before the first one whose formatting raises.
TilesRendered(data) ==
    IF \E i \in 1..TileCount : TileRaises(i, data)
    THEN (CHOOSE i \in 1..TileCount :
             /\ TileRaises(i, data)
             /\ \A j \in 1..(i - 1) : ~TileRaises(j, data)) - 1
    ELSE TileCount

RenderMarketData(data) ==
    IF "error" \in DOMAIN data
    THEN <<Element("error", "", data["error"])>>
    ELSE [i \in 1..TilesRendered(data) |-> Tile(i, data)]

MarketDataRaises(data) ==
    /\ "error" \notin DOMAIN data
    /\ TilesRendered(data) < TileCount

KeyMissingNever(key) == FALSE

\* `not api_key`
KeyMissing(key) == key = ""

-----------------------------------------------------------------------------
Init ==
    /\ openai_api_key = ""
    /\ pc = [s \in Sessions |-> "idle"]
    /\ widgets = [s \in Sessions |-> DefaultWidgets]
    /\ calls = [s \in Sessions |-> <<>>]
    /\ page = [s \in Sessions |-> <<>>]
    /\ fault = [s \in Sessions |-> FALSE]
    /\ submitted = [s \in Sessions |-> 0]

\* A user interaction arrives: the framework re-runs the script for the
\* session, starting from an empty page.
Rerun(s) ==
    /\ pc[s] = "idle"
    /\ pc' = [pc EXCEPT ![s] = "run"]
    /\ calls' = [calls EXCEPT ![s] = <<>>]
    /\ page' = [page EXCEPT ![s] = <<>>]
    /\ fault' = [fault EXCEPT ![s] = FALSE]
    /\ UNCHANGED <<openai_api_key, widgets, submitted>>

\* The API key field is empty: warn and return.
RenderRefuse(s, w) ==
    /\ pc[s] = "run"
    /\ w.pressed # "none" => submitted[s] < MaxSubmit
    /\ KeyMissing(w.api_key)
    /\ widgets' = [widgets EXCEPT ![s] = w]
    /\ page' = [page EXCEPT ![s] = <<Element("warning", "", PyStr("Please enter your OpenAI API key to continue."))>>]
    /\ pc' = [pc EXCEPT ![s] = "idle"]
    /\ UNCHANGED <<openai_api_key, calls, fault, submitted>>

\* An API key is entered: MiningBusinessAnalyst(api_key) is constructed.
RenderInit(s, w) ==
    /\ pc[s] = "run"
    /\ w.pressed # "none" => submitted[s] < MaxSubmit
    /\ ~KeyMissing(w.api_key)
    /\ widgets' = [widgets EXCEPT ![s] = w]
    /\ openai_api_key' = w.api_key
    /\ pc' = [pc EXCEPT ![s] = "tab1"]
    /\ UNCHANGED <<calls, page, fault, submitted>>

\* The query the Business Analysis tab hands to analyze_query.
Tab1Query(w) == BuildQuery(w.form)

\* Business Analysis tab, "Generate Analysis" pressed.
Tab1Generate(s, resp) ==
    /\ pc[s] = "tab1"
    /\ widgets[s].pressed = "Generate Analysis"
    /\ LET call == ChatCall(openai_api_key, Tab1Query(widgets[s]), resp)
       IN /\ calls' = [calls EXCEPT ![s] = Append(@, call)]
          /\ page' = [page EXCEPT ![s] = Append(@, Element("markdown", "", call.ret))]
    /\ submitted' = [submitted EXCEPT ![s] = @ + 1]
    /\ pc' = [pc EXCEPT ![s] = "tab2"]
    /\ UNCHANGED <<openai_api_key, widgets, fault>>

\* Business Analysis tab, button not pressed.
Tab1Skip(s) ==
    /\ pc[s] = "tab1"
    /\ widgets[s].pressed # "Generate Analysis"
    /\ pc' = [pc EXCEPT ![s] = "tab2"]
    /\ UNCHANGED <<openai_api_key, widgets, calls, page, fault, submitted>>

\* Market Data tab with a symbol entered: lookup, then error box or tiles.
Tab2Lookup(s, symbol, resp) ==
    /\ pc[s] = "tab2"
    /\ symbol # ""
    /\ LET call == TickerCall(symbol, resp)
           raised == MarketDataRaises(call.ret)
       IN /\ calls' = [calls EXCEPT ![s] = Append(@, call)]
          /\ page' = [page EXCEPT ![s] =
                         @ \o RenderMarketData(call.ret)
                           \o (IF raised THEN <<Element("exception", "", PyStr("ValueError"))>> ELSE <<>>)]
          /\ fault' = [fault EXCEPT ![s] = raised]
          /\ pc' = [pc EXCEPT ![s] = IF raised THEN "idle" ELSE "tab3"]
    /\ UNCHANGED <<openai_api_key, widgets, submitted>>

\* Market Data tab with the symbol field empty.
Tab2Skip(s, symbol) ==
    /\ pc[s] = "tab2"
    /\ symbol = ""
    /\ pc' = [pc EXCEPT ![s] = "tab3"]
    /\ UNCHANGED <<openai_api_key, widgets, calls, page, fault, submitted>>

\* Custom Query tab, "Generate Custom Analysis" pressed.
Tab3Generate(s, text, resp) ==
    /\ pc[s] = "tab3"
    /\ widgets[s].pressed = "Generate Custom Analysis"
    /\ LET call == ChatCall(openai_api_key, text, resp)
       IN /\ calls' = [calls EXCEPT ![s] = Append(@, call)]
          /\ page' = [page EXCEPT ![s] = Append(@, Element("markdown", "", call.ret))]
    /\ submitted' = [submitted EXCEPT ![s] = @ + 1]
    /\ pc' = [pc EXCEPT ![s] = "idle"]
    /\ UNCHANGED <<openai_api_key, widgets, fault>>

\* Custom Query tab, button not pressed.
Tab3Skip(s) ==
    /\ pc[s] = "tab3"
    /\ widgets[s].pressed # "Generate Custom Analysis"
    /\ pc' = [pc EXCEPT ![s] = "idle"]
    /\ UNCHANGED <<openai_api_key, widgets, calls, page, fault, submitted>>

\* One browser session, every widget value and every remote outcome.
Next ==
    \E s \in {"s1"} :
        \/ Rerun(s)
        \/ \E w \in WidgetsOf(s, Forms) : RenderRefuse(s, w)
        \/ \E w \in WidgetsOf(s, Forms) : RenderInit(s, w)
        \/ \E resp \in ChatResponses : Tab1Generate(s, resp)
        \/ Tab1Skip(s)
        \/ \E symbol \in Symbols, resp \in TickerResponses : Tab2Lookup(s, symbol, resp)
        \/ \E symbol \in Symbols : Tab2Skip(s, symbol)
        \/ \E text \in Texts, resp \in ChatResponses : Tab3Generate(s, text, resp)
        \/ Tab3Skip(s)

Spec == Init /\ [][Next]_vars

\* Two browser sessions served by one process, their passes interleaved;
\* a small choice of widget values and remote outcomes.
SessionForms == {FormOf("Market Research", "Gold", <<>>)}
SessionTexts == {"Impact of green energy on copper demand"}
SessionChatResponses ==
    {[raises |-> FALSE, msg |-> "", choices |-> <<PyStr("Copper demand is rising.")>>]}
SessionTickerResponses ==
    {[raises |-> TRUE, msg |-> "timeout", info |-> InfoOf({})],
     [raises |-> FALSE, msg |-> "", info |-> InfoOf(InfoKeys \cup {"longName"})]}

NextSessions ==
    \E s \in Sessions :
        \/ Rerun(s)
        \/ \E w \in WidgetsOf(s, SessionForms) : RenderRefuse(s, w)
        \/ \E w \in WidgetsOf(s, SessionForms) : RenderInit(s, w)
        \/ \E resp \in SessionChatResponses : Tab1Generate(s, resp)
        \/ Tab1Skip(s)
        \/ \E symbol \in Symbols, resp \in SessionTickerResponses : Tab2Lookup(s, symbol, resp)
        \/ \E symbol \in Symbols : Tab2Skip(s, symbol)
        \/ \E text \in SessionTexts, resp \in SessionChatResponses : Tab3Generate(s, text, resp)
        \/ Tab3Skip(s)

SpecSessions == Init /\ [][NextSessions]_vars

-----------------------------------------------------------------------------
(* Properties.                                                             *)

ChatCalls(s) == {i \in DOMAIN calls[s] : calls[s][i].api = "chat"}
TickerCalls(s) == {i \in DOMAIN calls[s] : calls[s][i].api = "ticker"}
Rendered(s, kind) == {i \in DOMAIN page[s] : page[s][i].widget = kind}

\* The option values selected in the templated form.
SelectedOptions(form) ==
    IF form.analysis_type = "Risk Assessment"
    THEN {form.risk_focus[i] : i \in DOMAIN form.risk_focus}
    ELSE {form.choice}

\* The (role, text) entries the session shows: the analyses written by
\* st.markdown in the current pass.
History(s) ==
    LET md == SelectSeq(page[s], LAMBDA e : e.widget = "markdown")
    IN [i \in DOMAIN md |-> [role |-> "assistant", text |-> md[i].body]]

\* C1: in a render pass whose API-key field is empty the shell returns
\* after the warning and makes no remote call (neither analyze_query nor
\* get_market_data), whatever the other widgets and buttons hold.
C1_NoRemoteCallWithoutKey ==
    \A s \in Sessions :
        widgets[s].api_key = "" =>
            /\ calls[s] = <<>>
            /\ pc[s] \in {"idle", "run"}

C1_Witness ==
    \E s \in Sessions :
        /\ widgets[s].api_key = ""
        /\ widgets[s].pressed = "Generate Custom Analysis"
        /\ pc[s] = "idle"
        /\ Rendered(s, "warning") # {}

\* C2: whatever the remote chat-completion call does, analyze_query returns
\* non-empty text or a string beginning with "Error".
C2_TextOrError ==
    \A s \in Sessions : \A i \in ChatCalls(s) :
        LET ret == calls[s][i].ret
        IN /\ ret.kind = "str"
           /\ ret.s # "" \/ StartsWith(ret.s, "Error")

\* C3: for a symbol the provider cannot resolve (it raises, or it returns
\* no data) get_market_data returns a mapping whose only key is error and
\* whose message is non-empty.
C3_UnresolvedGivesError ==
    \A s \in Sessions : \A i \in TickerCalls(s) :
        LET call == calls[s][i]
        IN (call.resp.raises \/ DOMAIN call.resp.info = {}) =>
               /\ DOMAIN call.ret = {"error"}
               /\ call.ret["error"].s # ""

\* C4: for a symbol resolved successfully the returned mapping has exactly
\* the seven fixed keys, each holding the provider's value when the provider
\* returned that field and the 'N/A' sentinel otherwise, and never the key
\* error.
C4_SevenFields ==
    \A s \in Sessions : \A i \in TickerCalls(s) :
        LET call == calls[s][i]
        IN ~call.resp.raises =>
               /\ DOMAIN call.ret = SnapshotKeys
               /\ Cardinality(DOMAIN call.ret) = 7
               /\ "error" \notin DOMAIN call.ret
               /\ \A k \in SnapshotKeys :
                      IF SourceKey(k) \in DOMAIN call.resp.info
                      THEN call.ret[k] = call.resp.info[SourceKey(k)]
                      ELSE call.ret[k] = PyStr("N/A")

C4_Witness ==
    \E s \in Sessions : \E i \in TickerCalls(s) :
        LET call == calls[s][i]
        IN /\ ~call.resp.raises
           /\ DOMAIN call.resp.info = {"currentPrice", "forwardPE", "longName"}
           /\ call.ret["price"] = PyInt(45)
           /\ call.ret["volume"] = PyStr("N/A")

\* C5: after N submitted queries the conversation history holds exactly 2N
\* entries, alternating user and assistant.
C5_HistoryTwoPerQuery ==
    \A s \in Sessions :
        /\ Len(History(s)) = 2 * submitted[s]
        /\ \A i \in DOMAIN History(s) :
               History(s)[i].role = (IF i % 2 = 1 THEN "user" ELSE "assistant")

\* C6: when "Generate Analysis" is pressed, the query handed to
\* analyze_query is the one built from the form, and it contains every
\* option value selected in the form, for each of the five analysis types.
C6_QueryContainsSelection ==
    \A s \in Sessions : \A i \in ChatCalls(s) :
        widgets[s].pressed = "Generate Analysis" =>
            /\ calls[s][i].arg = BuildQuery(widgets[s].form)
            /\ \A opt \in SelectedOptions(widgets[s].form) : Contains(calls[s][i].arg, opt)

C6_Witness ==
    \E s \in Sessions : \E i \in ChatCalls(s) :
        /\ widgets[s].pressed = "Generate Analysis"
        /\ widgets[s].form.analysis_type = "Risk Assessment"
        /\ widgets[s].form.risk_focus = <<"Political", "Market">>
        /\ calls[s][i].arg =
             "Provide a detailed risk assessment for mining operations focusing on Political, Market risks."

\* C7: a user action causes at most one remote call; an analysis action
\* causes exactly one chat-completion request and no ticker lookup, and a
\* ticker lookup happens only in a pass that is not an analysis action.
C7_OneCallPerAction ==
    \A s \in Sessions :
        /\ Len(calls[s]) <= 1
        /\ (widgets[s].pressed # "none" /\ widgets[s].api_key # "") =>
               /\ TickerCalls(s) = {}
               /\ pc[s] = "idle" => Cardinality(ChatCalls(s)) = 1

\* C8: every chat-completion request a session issues is made with the API
\* key entered in that session.
C8_OwnKey ==
    \A s \in Sessions : \A i \in ChatCalls(s) :
        calls[s][i].key = widgets[s].api_key

\* C9: for a successfully resolved symbol, whichever fields are 'N/A', the
\* Market Data tab renders all seven metric tiles and the pass does not end
\* in an unhandled exception.
C9_MissingFieldRenders ==
    \A s \in Sessions : \A i \in TickerCalls(s) :
        "error" \notin DOMAIN calls[s][i].ret =>
            /\ ~fault[s]
            /\ Cardinality(Rendered(s, "metric")) = 7

\* C10: analyze_query is never called with an empty query.
C10_QueryNonEmpty ==
    \A s \in Sessions : \A i \in ChatCalls(s) : calls[s][i].arg # ""

====
